---- MODULE Spec2Model ----
(***************************************************************************)
(* Model of sgpt/app.py: the CLI entry point `main`.                       *)
(*                                                                         *)
(* main is one sequential procedure.  Its state is the bound command-line  *)
(* arguments, the standard input, the local variables `prompt`, `client`   *)
(* and `full_completion`, and the position of control (`pc`, named after   *)
(* the source line about to execute).  The collaborators (sys.stdin,       *)
(* get_edited_prompt, OpenAIClient, the three handlers, typer.confirm,     *)
(* run_command) are observed through the record of the calls made to them. *)
(*                                                                         *)
(* Python values: text is a TLA+ string, None is the value None below      *)
(* (never a member of the text sets), and truthiness of an Optional[str]   *)
(* is Truthy.  model / temperature / top_probability are passed through    *)
(* to the handler unchanged and take no part in control flow; they are not *)
(* represented.                                                            *)
(***************************************************************************)
EXTENDS Naturals, Sequences, FiniteSets, TLC

VARIABLES
    args,             \* bound parameters of main: prompt, shell, code, editor, cache, chat, repl
    stdin,            \* [isatty, text]: sys.stdin
    pc,               \* control position of main
    prompt,           \* local `prompt` (rebound at lines 93 and 108)
    stdin_read,       \* TRUE once sys.stdin.read() has been called
    editor_calls,     \* sequence of texts returned by get_edited_prompt()
    client,           \* TRUE once OpenAIClient(api_host, api_key) is constructed
    calls,            \* sequence of handle() calls made by main
    turns,            \* iterations performed inside ReplHandler.handle
    full_completion,  \* local `full_completion`
    confirm,          \* answer of typer.confirm (line 143): "unasked", "yes", "no", "abort"
    run_calls,        \* sequence of arguments given to run_command
    status            \* "running", "returned", "MissingParameter", "BadArgumentUsage", "raised"

vars == <<args, stdin, pc, prompt, stdin_read, editor_calls, client, calls,
          turns, full_completion, confirm, run_calls, status>>

----------------------------------------------------------------------------
(* Bounds and input domains *)

MaxTurns == 2

None == "<None>"

PromptArgs == {None, "", "p"}
ChatIds == {None, "", "c"}
ReplIds == {None, "", "r"}
StdinTexts == {"", "s"}
EditorTexts == {"", "e"}
Completions == {"", "ls"}
ReplLines == {"q"}

NoChatId == "<no chat_id>"

----------------------------------------------------------------------------
(* Python helpers *)

\* bool(x) for an Optional[str]
Truthy(x) == x # None /\ x # ""

\* (x or "")
OrEmpty(x) == IF Truthy(x) THEN x ELSE ""

\* not sys.stdin.isatty()
stdin_passed == ~stdin.isatty

----------------------------------------------------------------------------
Init ==
    /\ args \in [prompt : PromptArgs, shell : BOOLEAN, code : BOOLEAN,
                 editor : BOOLEAN, cache : BOOLEAN, chat : ChatIds, repl : ReplIds]
    /\ stdin \in [isatty : BOOLEAN, text : StdinTexts]
    /\ pc = "l90"
    /\ prompt = args.prompt
    /\ stdin_read = FALSE
    /\ editor_calls = <<>>
    /\ client = FALSE
    /\ calls = <<>>
    /\ turns = 0
    /\ full_completion = None
    /\ confirm = "unasked"
    /\ run_calls = <<>>
    /\ status = "running"

\* line 92: if stdin_passed and not repl
StdinConsumed == stdin_passed /\ ~Truthy(args.repl)

\* operands of the concatenation swapped
StdinPromptSwapped == OrEmpty(prompt) \o stdin.text

\* line 93: sys.stdin.read() + (prompt or "")
StdinPrompt == stdin.text \o OrEmpty(prompt)

\* lines 90-93: stdin_passed = not sys.stdin.isatty(); the piped text is prepended to prompt
ReadStdin ==
    /\ pc = "l90"
    /\ IF StdinConsumed
         THEN prompt' = StdinPrompt /\ stdin_read' = TRUE
         ELSE UNCHANGED <<prompt, stdin_read>>
    /\ pc' = "l95"
    /\ UNCHANGED <<args, stdin, editor_calls, client, calls, turns,
                   full_completion, confirm, run_calls, status>>

\* raise <kind>(...): the exception leaves main
Raise(kind) ==
    /\ status' = kind
    /\ pc' = "exit"

\* tests `prompt is None` where the code tests `not prompt`
MissingPromptIsNone == prompt = None /\ ~args.editor /\ ~Truthy(args.repl)

\* line 95: if not prompt and not editor and not repl
MissingPrompt == ~Truthy(prompt) /\ ~args.editor /\ ~Truthy(args.repl)

\* lines 95-96
CheckPrompt ==
    /\ pc = "l95"
    /\ IF MissingPrompt
         THEN Raise("MissingParameter")
         ELSE pc' = "l98" /\ UNCHANGED status
    /\ UNCHANGED <<args, stdin, prompt, stdin_read, editor_calls, client, calls,
                   turns, full_completion, confirm, run_calls>>

\* tests `shell and not code`
ShellCodeConflictNegated == args.shell /\ ~args.code

\* line 98: if shell and code
ShellCodeConflict == args.shell /\ args.code

\* lines 98-99
CheckShellCode ==
    /\ pc = "l98"
    /\ IF ShellCodeConflict
         THEN Raise("BadArgumentUsage")
         ELSE pc' = "l101" /\ UNCHANGED status
    /\ UNCHANGED <<args, stdin, prompt, stdin_read, editor_calls, client, calls,
                   turns, full_completion, confirm, run_calls>>

\* tests `chat and chat == repl`
ChatReplConflictSameId == Truthy(args.chat) /\ args.chat = args.repl

\* line 101: if chat and repl
ChatReplConflict == Truthy(args.chat) /\ Truthy(args.repl)

\* lines 101-102
CheckChatRepl ==
    /\ pc = "l101"
    /\ IF ChatReplConflict
         THEN Raise("BadArgumentUsage")
         ELSE pc' = "l104" /\ UNCHANGED status
    /\ UNCHANGED <<args, stdin, prompt, stdin_read, editor_calls, client, calls,
                   turns, full_completion, confirm, run_calls>>

\* tests `editor and not stdin_passed`
EditorStdinConflictNegated == args.editor /\ ~stdin_passed

\* line 104: if editor and stdin_passed
EditorStdinConflict == args.editor /\ stdin_passed

\* lines 104-105
CheckEditorStdin ==
    /\ pc = "l104"
    /\ IF EditorStdinConflict
         THEN Raise("BadArgumentUsage")
         ELSE pc' = "l107" /\ UNCHANGED status
    /\ UNCHANGED <<args, stdin, prompt, stdin_read, editor_calls, client, calls,
                   turns, full_completion, confirm, run_calls>>

\* `prompt = prompt or get_edited_prompt()`: the argument wins over the editor
EditedPromptKeepsArgument(text) == IF Truthy(prompt) THEN prompt ELSE text

\* line 108: the value bound to prompt, given the text get_edited_prompt() returned
EditedPrompt(text) == text

\* lines 107-108: if editor: prompt = get_edited_prompt()
EditPrompt ==
    /\ pc = "l107"
    /\ IF args.editor
         THEN \E text \in EditorTexts :
                /\ editor_calls' = Append(editor_calls, text)
                /\ prompt' = EditedPrompt(text)
         ELSE UNCHANGED <<editor_calls, prompt>>
    /\ pc' = "l110"
    /\ UNCHANGED <<args, stdin, stdin_read, client, calls, turns,
                   full_completion, confirm, run_calls, status>>

\* lines 110-112: client = OpenAIClient(api_host, api_key)
MakeClient ==
    /\ pc = "l110"
    /\ client' = TRUE
    /\ pc' = "l114"
    /\ UNCHANGED <<args, stdin, prompt, stdin_read, editor_calls, calls, turns,
                   full_completion, confirm, run_calls, status>>

\* One <Handler>(client, ..., shell, code).handle(prompt, ..., chat_id=..., caching=cache)
HandleCall(handler, chat_id) ==
    [handler |-> handler, prompt |-> prompt, chat_id |-> chat_id,
     shell |-> args.shell, code |-> args.code, caching |-> args.cache]

\* lines 114-123: if repl: ReplHandler(client, repl, shell, code).handle(prompt, ..., chat_id=repl)
ReplHandle ==
    /\ pc = "l114"
    /\ IF Truthy(args.repl)
         THEN /\ calls' = Append(calls, HandleCall("ReplHandler", args.repl))
              /\ pc' = "in_repl"
         ELSE /\ pc' = "l125"
              /\ UNCHANGED calls
    /\ UNCHANGED <<args, stdin, prompt, stdin_read, editor_calls, client, turns,
                   full_completion, confirm, run_calls, status>>

\* inside ReplHandler.handle: one line read and dispatched (Reading -> Dispatching -> Reading)
ReplTurn ==
    /\ pc = "in_repl"
    /\ turns < MaxTurns
    /\ \E line \in ReplLines : turns' = turns + 1
    /\ UNCHANGED <<args, stdin, pc, prompt, stdin_read, editor_calls, client, calls,
                   full_completion, confirm, run_calls, status>>

\* ReplHandler.handle returns to main (the loop ended); its result is discarded (line 116)
ReplReturns ==
    /\ pc = "in_repl"
    /\ pc' = "l125"
    /\ UNCHANGED <<args, stdin, prompt, stdin_read, editor_calls, client, calls, turns,
                   full_completion, confirm, run_calls, status>>

\* ReplHandler.handle is left by an exception (interrupt, exit, fatal API error)
ReplExits ==
    /\ pc = "in_repl"
    /\ Raise("raised")
    /\ UNCHANGED <<args, stdin, prompt, stdin_read, editor_calls, client, calls, turns,
                   full_completion, confirm, run_calls>>

\* The outcome of a ChatHandler / DefaultHandler handle() call at lines 126 / 135:
\* it returns the final text, bound to full_completion, or raises
HandleOutcome ==
    \/ \E text \in Completions :
         /\ full_completion' = text
         /\ pc' = "l143"
         /\ UNCHANGED status
    \/ /\ Raise("raised")
       /\ UNCHANGED full_completion

\* lines 125-133: if chat: full_completion = ChatHandler(client, chat, shell, code).handle(...)
ChatHandle ==
    /\ pc = "l125"
    /\ Truthy(args.chat)
    /\ calls' = Append(calls, HandleCall("ChatHandler", args.chat))
    /\ HandleOutcome
    /\ UNCHANGED <<args, stdin, prompt, stdin_read, editor_calls, client, turns,
                   confirm, run_calls>>

\* lines 134-141: else: full_completion = DefaultHandler(client, shell, code).handle(...)
DefaultHandle ==
    /\ pc = "l125"
    /\ ~Truthy(args.chat)
    /\ calls' = Append(calls, HandleCall("DefaultHandler", NoChatId))
    /\ HandleOutcome
    /\ UNCHANGED <<args, stdin, prompt, stdin_read, editor_calls, client, turns,
                   confirm, run_calls>>

\* the `not stdin_passed` operand dropped
ShouldConfirmShellOnly == args.shell

\* line 143: shell and not stdin_passed (the operands evaluated before typer.confirm)
ShouldConfirm == args.shell /\ ~stdin_passed

\* line 143: if shell and not stdin_passed and typer.confirm("Execute shell command?")
Confirm ==
    /\ pc = "l143"
    /\ IF ShouldConfirm
         THEN \E answer \in {"yes", "no", "abort"} :
                /\ confirm' = answer
                /\ CASE answer = "yes" -> pc' = "l144" /\ UNCHANGED status
                     [] answer = "no" -> Raise("returned")
                     [] answer = "abort" -> Raise("raised")
         ELSE /\ Raise("returned")
              /\ UNCHANGED confirm
    /\ UNCHANGED <<args, stdin, prompt, stdin_read, editor_calls, client, calls, turns,
                   full_completion, run_calls>>

\* run_command(prompt)
RunCommandArgPrompt == prompt

\* line 144: the argument of run_command
RunCommandArg == full_completion

\* line 144: run_command(full_completion), then main returns
RunCommand ==
    /\ pc = "l144"
    /\ run_calls' = Append(run_calls, RunCommandArg)
    /\ Raise("returned")
    /\ UNCHANGED <<args, stdin, prompt, stdin_read, editor_calls, client, calls, turns,
                   full_completion, confirm>>

Next ==
    \/ ReadStdin
    \/ CheckPrompt
    \/ CheckShellCode
    \/ CheckChatRepl
    \/ CheckEditorStdin
    \/ EditPrompt
    \/ MakeClient
    \/ ReplHandle
    \/ ReplTurn
    \/ ReplReturns
    \/ ReplExits
    \/ ChatHandle
    \/ DefaultHandle
    \/ Confirm
    \/ RunCommand

Spec == Init /\ [][Next]_vars

TypeOK ==
    /\ pc \in {"l90", "l95", "l98", "l101", "l104", "l107", "l110", "l114",
               "in_repl", "l125", "l143", "l144", "exit"}
    /\ status \in {"running", "returned", "MissingParameter", "BadArgumentUsage", "raised"}
    /\ Len(calls) <= 2
    /\ Len(run_calls) <= 1
----------------------------------------------------------------------------
(* Vocabulary of the properties, stated on the inputs and the recorded calls *)

UsageErrors == {"MissingParameter", "BadArgumentUsage"}

BothShellCode == args.shell /\ args.code
BothChatRepl == Truthy(args.chat) /\ Truthy(args.repl)
EditorWithPipe == args.editor /\ ~stdin.isatty

\* the prompt main works with when neither editor nor repl is set
EffectivePrompt ==
    IF stdin.isatty THEN args.prompt ELSE stdin.text \o OrEmpty(args.prompt)

NoNetwork == ~client /\ calls = <<>> /\ turns = 0

----------------------------------------------------------------------------
\* C1: in every run of main, whether a repl handler call returns or not, at most
\* one handle() call is made in total across ReplHandler, ChatHandler and
\* DefaultHandler.
C1_AtMostOneHandleCall == Len(calls) <= 1

\* C2: with shell and code both set the run ends in a usage error before the
\* OpenAIClient is constructed and before any handle() call, whatever the other
\* flags are; neither the editor nor run_command is invoked.
C2_ShellCodeRejected ==
    BothShellCode =>
        /\ NoNetwork
        /\ editor_calls = <<>>
        /\ confirm = "unasked"
        /\ run_calls = <<>>
        /\ pc \in {"l90", "l95", "l98", "exit"}
        /\ pc = "exit" => status \in UsageErrors

C2_Witness ==
    /\ BothShellCode
    /\ args.editor
    /\ Truthy(args.repl)
    /\ pc = "exit"
    /\ status = "BadArgumentUsage"

\* C3: with a chat id and a repl id both set the run ends in a usage error
\* before the OpenAIClient is constructed and before any handle() call, so
\* neither ReplHandler nor ChatHandler runs.
C3_ChatReplRejected ==
    BothChatRepl =>
        /\ NoNetwork
        /\ pc \in {"l90", "l95", "l98", "l101", "exit"}
        /\ pc = "exit" => status = "BadArgumentUsage"

C3_Witness ==
    /\ BothChatRepl
    /\ ~BothShellCode
    /\ pc = "exit"
    /\ status = "BadArgumentUsage"

\* C4: with the editor flag set while stdin is piped the run ends in a usage
\* error; get_edited_prompt is never called, the OpenAIClient is never
\* constructed and no handle() call is made.
C4_EditorPipeRejected ==
    EditorWithPipe =>
        /\ NoNetwork
        /\ editor_calls = <<>>
        /\ pc \in {"l90", "l95", "l98", "l101", "l104", "exit"}
        /\ pc = "exit" => status = "BadArgumentUsage"

C4_Witness ==
    /\ EditorWithPipe
    /\ ~BothShellCode
    /\ ~BothChatRepl
    /\ pc = "exit"
    /\ status = "BadArgumentUsage"

\* C5: when the effective prompt is empty or absent and neither editor nor repl
\* is set, main raises MissingParameter before the OpenAIClient is constructed
\* and before any handle() call; and no handler invoked in a non-editor,
\* non-repl run receives an empty or absent prompt.
C5_MissingPromptRejected ==
    (~args.editor /\ ~Truthy(args.repl)) =>
        /\ ~Truthy(EffectivePrompt) =>
              /\ NoNetwork
              /\ pc \in {"l90", "l95", "exit"}
              /\ pc = "exit" => status = "MissingParameter"
        /\ \A i \in DOMAIN calls : Truthy(calls[i].prompt)

C5_Witness ==
    /\ ~args.editor
    /\ ~Truthy(args.repl)
    /\ ~stdin.isatty
    /\ args.prompt = ""
    /\ EffectivePrompt = ""
    /\ pc = "exit"
    /\ status = "MissingParameter"

\* C6: run_command is called only after a handler has returned its final text
\* and the user has answered the confirmation with yes, in a run with shell set;
\* its argument is exactly the text the last handler call returned; when the
\* user declines, run_command is never called and main returns normally.
C6_RunCommandGuarded ==
    /\ Len(run_calls) <= 1
    /\ run_calls # <<>> =>
          /\ args.shell
          /\ confirm = "yes"
          /\ calls # <<>>
          /\ calls[Len(calls)].handler \in {"ChatHandler", "DefaultHandler"}
          /\ full_completion \in Completions
          /\ run_calls = <<full_completion>>
    /\ pc = "l144" => confirm = "yes" /\ full_completion \in Completions
    /\ confirm = "no" =>
          /\ run_calls = <<>>
          /\ pc = "exit"
          /\ status = "returned"

C6_Witness ==
    /\ run_calls = <<"ls">>
    /\ prompt = "p"
    /\ status = "returned"

\* C7: in a run that passes validation, if repl is set the first handler invoked
\* is ReplHandler with chat_id = repl; if chat is set and repl is not, the only
\* handler invoked is ChatHandler with chat_id = chat; if neither is set the only
\* handler invoked is DefaultHandler, without a chat_id; a DefaultHandler call
\* happens only in runs where neither chat nor repl was given.
C7_HandlerSelectedByFlags ==
    /\ (Truthy(args.repl) /\ calls # <<>>) =>
          /\ calls[1].handler = "ReplHandler"
          /\ calls[1].chat_id = args.repl
    /\ (Truthy(args.chat) /\ ~Truthy(args.repl)) =>
          \A i \in DOMAIN calls :
             calls[i].handler = "ChatHandler" /\ calls[i].chat_id = args.chat
    /\ (~Truthy(args.chat) /\ ~Truthy(args.repl)) =>
          \A i \in DOMAIN calls :
             calls[i].handler = "DefaultHandler" /\ calls[i].chat_id = NoChatId
    /\ \A i \in DOMAIN calls :
          calls[i].handler = "DefaultHandler" =>
             ~Truthy(args.chat) /\ ~Truthy(args.repl)

\* C8: the editor is opened at most once per run, only with the editor flag set
\* and every configuration check passed, and before the OpenAIClient is
\* constructed; every handler then invoked receives exactly the text the editor
\* returned, whatever prompt argument was given.
C8_EditorOnceBeforeClient ==
    /\ Len(editor_calls) <= 1
    /\ editor_calls # <<>> =>
          /\ args.editor
          /\ ~BothShellCode
          /\ ~BothChatRepl
          /\ ~EditorWithPipe
          /\ status \notin UsageErrors
    /\ (args.editor /\ (client \/ calls # <<>>)) => Len(editor_calls) = 1
    /\ args.editor =>
          \A i \in DOMAIN calls : calls[i].prompt = editor_calls[1]

C8_Witness ==
    /\ args.editor
    /\ args.prompt = "p"
    /\ editor_calls = <<"e">>
    /\ calls # <<>>
    /\ calls[1].prompt = "e"

\* C9: when stdin is piped, neither the execution confirmation nor run_command
\* is ever reached, even with shell set and for any completion text.
C9_NoExecutionWhenPiped ==
    ~stdin.isatty =>
        /\ confirm = "unasked"
        /\ run_calls = <<>>
        /\ pc # "l144"

C9_Witness ==
    /\ ~stdin.isatty
    /\ args.shell
    /\ full_completion = "ls"
    /\ pc = "exit"
    /\ status = "returned"

\* C10, first part: when stdin is piped and repl is not set, every handler
\* receives the stdin text followed by the prompt argument (empty when absent).
C10_PipedPrompt ==
    (~stdin.isatty /\ ~Truthy(args.repl)) =>
        \A i \in DOMAIN calls :
           calls[i].prompt = stdin.text \o OrEmpty(args.prompt)

\* C10 as stated: the first part, and when repl is set stdin is not consumed
\* and ReplHandler receives the prompt argument unchanged.
C10_Original ==
    /\ C10_PipedPrompt
    /\ Truthy(args.repl) =>
          /\ ~stdin_read
          /\ \A i \in DOMAIN calls :
                calls[i].handler = "ReplHandler" => calls[i].prompt = args.prompt

\* C10 as amended: the first part, and when repl is set stdin is not consumed
\* and ReplHandler receives the prompt argument unchanged unless the editor
\* flag is set, in which case it receives the text the editor returned.
C10_ReplPromptUnlessEditor ==
    /\ C10_PipedPrompt
    /\ Truthy(args.repl) =>
          /\ ~stdin_read
          /\ \A i \in DOMAIN calls :
                calls[i].handler = "ReplHandler" =>
                   calls[i].prompt = IF args.editor THEN editor_calls[1] ELSE args.prompt

C10_Witness ==
    /\ ~stdin.isatty
    /\ stdin.text = "s"
    /\ Truthy(args.repl)
    /\ args.prompt = None
    /\ calls # <<>>
    /\ calls[1].handler = "ReplHandler"
====
